---- MODULE Spec2Model ----
(***************************************************************************)
(* bilibili_api.ass: the ASS export entry points (src/bilibili_api/ass.py) *)
(* and the danmaku layout engine they hand their data to.                  *)
(*                                                                         *)
(* Three specifications share the module's variables:                      *)
(*   Spec       one call of an entry point, every argument combination     *)
(*   SpecPar    two calls running in parallel on one temp directory        *)
(*   SpecLayout the layout engine on a time-ordered comment sequence       *)
(***************************************************************************)
EXTENDS Integers, Sequences, FiniteSets, TLC

VARIABLES
    pc,      \* pc[p]: the position of call p in its entry point
    call,    \* call[p]: the arguments call p was made with
    loc,     \* loc[p]: the locals cid, stage_size and danmakus/xml_content
    err,     \* err[p]: the exception call p raised, "none" before
    hist,    \* hist[p]: what call p did (retrievals, files written, converter runs)
    fs,      \* the file system: path -> content, for the paths that exist
    canvas,  \* the layout engine's canvas configuration
    placed,  \* the placed comments, in processing order
    rows,    \* rows[class]: the last occupant of each allocated row
    dropped, \* the number of comments dropped with a warning
    clock    \* the start_time of the last comment the engine was given

vars == <<pc, call, loc, err, hist, fs, canvas, placed, rows, dropped, clock>>
callVars == <<pc, call, loc, err, hist, fs>>
layoutVars == <<canvas, placed, rows, dropped, clock>>

(***************************************************************************)
(* Bounds                                                                  *)
(***************************************************************************)
MaxPathLen == 5
MaxComments == 3

(***************************************************************************)
(* Values                                                                  *)
(***************************************************************************)
Procs == {1, 2}

\* Python's None for the optional integers page and cid.
Null == -1

DefaultWidth == 1440
DefaultHeight == 1080

\* An unbound local (a later read raises UnboundLocalError).
Unbound == <<>>

XmlFn == "make_ass_file_danmakus_xml"
ProtobufFn == "make_ass_file_danmakus_protobuf"
SubtitleFn == "make_ass_file_subtitle"
JsonFn == "export_ass_from_json"
DanmakuFns == {XmlFn, ProtobufFn}
CredentialKinds == {"None", "NoSessdata", "Sessdata"}
ObjTypes == {"Video", "Episode", "CheeseVideo", "Other"}

\* isinstance(obj, Video): Episode is a subclass of Video.
IsVideo(obj) == obj \in {"Video", "Episode"}

\* The characters an output path is made of.
PathChars == {"o", ".", "a", "s"}

RECURSIVE SeqsUpTo(_, _)
SeqsUpTo(S, n) ==
    IF n = 0 THEN {<<>>}
    ELSE LET shorter == SeqsUpTo(S, n - 1)
         IN shorter \cup {<<c>> \o s : c \in S, s \in {t \in shorter : Len(t) = n - 1}}

OutPaths == SeqsUpTo(PathChars, MaxPathLen) \ {<<>>}

\* gettempdir() + "/danmaku_temp.xml" and gettempdir() + "/" + "subtitle.json":
\* the same path for every call.
TmpXml == <<"/tmp/danmaku_temp.xml">>
TmpJson == <<"/tmp/subtitle.json">>

\* Where each call's output goes when the path itself is not under study.
DefaultOut(p) == <<IF p = 1 THEN "/out/1" ELSE "/out/2", ".", "a", "s", "s">>
\* An output path that does not end in ".ass".
PlainOut(p) == <<IF p = 1 THEN "/out/1" ELSE "/out/2", ".", "t", "x", "t">>
JsonIn(p) == <<IF p = 1 THEN "/in/1.json" ELSE "/in/2.json">>

\* A file's content: what it holds and which call's video it came from.
Content(kind, src) == [kind |-> kind, src |-> src]

\* The stage sizes get_info may report (a dimension of 0 or below included).
InfoDimensions == {<<1920, 1080>>, <<0, 1080>>, <<1920, 0>>, <<-1, -1>>}

Outcomes == {"ok", "fail", "cancel"}

\* The exception a failed or cancelled await raises.
RetrievalError(outcome) ==
    IF outcome = "cancel" THEN "CancelledError" ELSE "NetworkException"

\* The subtitle tracks info["subtitle"]["list"] may hold, as lan_doc sequences.
TrackLists == {<<>>, <<"zh">>, <<"en", "zh">>, <<"zh", "zh">>}
TrackNames == {"zh", "ja"}

(***************************************************************************)
(* The file system                                                         *)
(***************************************************************************)
\* open(path, "w") ... write(content): creates or overwrites.
WriteFile(f, path, content) ==
    [x \in DOMAIN f \cup {path} |-> IF x = path THEN content ELSE f[x]]

\* os.remove(path)
RemoveFile(f, path) == [x \in DOMAIN f \ {path} |-> f[x]]

Exists(f, path) == path \in DOMAIN f

(***************************************************************************)
(* str.replace(old, new): every non-overlapping occurrence, left to right  *)
(***************************************************************************)
RECURSIVE Replace(_, _, _)
Replace(s, old, new) ==
    IF Len(s) < Len(old) THEN s
    ELSE IF SubSeq(s, 1, Len(old)) = old
         THEN new \o Replace(SubSeq(s, Len(old) + 1, Len(s)), old, new)
         ELSE <<Head(s)>> \o Replace(Tail(s), old, new)

DotAss == <<".", "a", "s", "s">>
DotSrt == <<".", "s", "r", "t">>

\* output_local.replace(".ass", ".srt")
SrtPath(out) == Replace(out, DotAss, DotSrt)

(***************************************************************************)
(* The converters of bilibili_api.utils                                    *)
(***************************************************************************)
ValidStage(stage) == Len(stage) = 2 /\ stage[1] > 0 /\ stage[2] > 0

\* Danmaku2ASS without the stage size precondition.
MutDanmaku2ASS(f, input, output, stage, readable) ==
    IF ~Exists(f, input) \/ ~readable
    THEN [fs |-> f, err |-> "ConverterError", layout |-> FALSE]
    ELSE [fs |-> WriteFile(f, output, Content("ass", f[input].src)),
          err |-> "none", layout |-> TRUE]

\* Danmaku2ASS(input_files, "Bilibili", output_file, stage_width, stage_height, ...):
\* requires a valid stage size, reads the input once, lays the comments out and
\* writes the complete output file. readable: whether the input container parses.
Danmaku2ASS(f, input, output, stage, readable) ==
    IF ~ValidStage(stage)
    THEN [fs |-> f, err |-> "ValueError", layout |-> FALSE]
    ELSE IF ~Exists(f, input) \/ ~readable
    THEN [fs |-> f, err |-> "ConverterError", layout |-> FALSE]
    ELSE [fs |-> WriteFile(f, output, Content("ass", f[input].src)),
          err |-> "none", layout |-> TRUE]

\* json2srt(doc, out): the captioning JSON as a plain subtitle file.
Json2Srt(f, doc, out) == WriteFile(f, out, Content("srt", f[doc].src))

\* srt2ass(input_file, output_file, "movie"): the plain subtitle file as ASS.
Srt2Ass(f, input, out) == WriteFile(f, out, Content("ass", f[input].src))

\* export_ass_from_json(file_local, output_local). failsAt: the converter that
\* raises, "none" when both succeed.
ExportAssFromJsonFs(f, file_local, output_local, failsAt) ==
    LET srt == SrtPath(output_local)
        f1 == Json2Srt(f, file_local, srt)
        f2 == Srt2Ass(f1, srt, output_local)
    IN IF failsAt = "json2srt" THEN f
       ELSE IF failsAt = "srt2ass" THEN f1
       ELSE RemoveFile(f2, srt)

(***************************************************************************)
(* The entry points' pure parts                                            *)
(***************************************************************************)
Step(next, cid, stage, e) == [next |-> next, cid |-> cid, stage |-> stage, err |-> e]

\* The dispatch without the check that page or cid is given.
MutDispatchVideo(a) ==
    IF a.obj = "Episode" THEN Step("get_info", 0, Unbound, "none")
    ELSE IF a.cid = Null THEN Step("page_id", a.cid, Unbound, "none")
    ELSE Step("get_info", a.cid, Unbound, "none")

\* if isinstance(obj, Episode): cid = 0, else the page index or the cid is needed.
DispatchVideo(a) ==
    IF a.obj = "Episode" THEN Step("get_info", 0, Unbound, "none")
    ELSE IF a.cid = Null
    THEN IF a.page = Null THEN Step("raised", a.cid, Unbound, "ArgsException")
         ELSE Step("page_id", a.cid, Unbound, "none")
    ELSE Step("get_info", a.cid, Unbound, "none")

\* The danmaku entry points up to their first await: the credential check of the
\* protobuf variant, then the dispatch on obj's type and on page and cid.
ArgsCheck(a) ==
    IF a.fn = ProtobufFn /\ a.date /\ a.credential # "Sessdata"
    THEN Step("raised", a.cid, Unbound,
              IF a.credential = "None" THEN "AttributeError"
              ELSE "CredentialNoSessdataException")
    ELSE IF IsVideo(a.obj) THEN DispatchVideo(a)
    ELSE IF a.obj = "CheeseVideo"
    THEN Step("fetch", a.cid, <<DefaultWidth, DefaultHeight>>, "none")
    ELSE Step("write", a.cid, Unbound, "none")

\* What v.get_info() may do: return the dimension, fail or be cancelled.
InfoResults ==
    {[outcome |-> "ok", dim |-> d] : d \in InfoDimensions}
    \cup {[outcome |-> o, dim |-> <<0, 0>>] : o \in {"fail", "cancel"}}

\* The stage size with a fallback of another size.
MutStageSizeOf(r) ==
    IF r.outcome = "ok" THEN r.dim ELSE <<DefaultHeight, DefaultWidth>>

\* try: info = await v.get_info()  except: info = the default dimension
StageSizeOf(r) ==
    IF r.outcome = "ok" THEN r.dim ELSE <<DefaultWidth, DefaultHeight>>

\* A fetch whose failure is swallowed like get_info's.
MutFetchProceeds(o) == TRUE

\* The outcomes of an await that let the call go on.
PageIdProceeds(o) == o = "ok"
FetchProceeds(o) == o = "ok"

\* for subtitle in json_files: if subtitle["lan_doc"] == name: the first match,
\* 0 when the loop ends without one.
RECURSIVE FirstMatch(_, _, _)
FirstMatch(tracks, name, i) ==
    IF i > Len(tracks) THEN 0
    ELSE IF tracks[i] = name THEN i
    ELSE FirstMatch(tracks, name, i + 1)

\* raise ValueError("...") after the loop
NotFoundError == "ValueError"

(***************************************************************************)
(* The calls                                                               *)
(***************************************************************************)
NoHist ==
    [retr |-> {}, failed |-> {}, wrote |-> {}, conv |-> FALSE, layout |-> FALSE,
     read |-> Content("nothing", 0), info |-> [outcome |-> "none", dim |-> <<0, 0>>],
     stage |-> Unbound]

NoLoc == [cid |-> Null, stage |-> Unbound, data |-> Content("unbound", 0), url |-> 0]

IdleCall ==
    [fn |-> "idle", obj |-> "Video", page |-> Null, cid |-> Null, date |-> FALSE,
     credential |-> "None", out |-> <<>>, name |-> "", tracks |-> <<>>]

Goto(p, label) == pc' = [pc EXCEPT ![p] = label]

Raise(p, e) ==
    /\ pc' = [pc EXCEPT ![p] = "raised"]
    /\ err' = [err EXCEPT ![p] = e]

Retrieved(p, step, outcome) ==
    hist' = [hist EXCEPT ![p].retr = @ \cup {step},
                         ![p].failed = IF outcome = "ok" THEN @ ELSE @ \cup {step}]

\* make_ass_file_danmakus_xml / _protobuf, up to the first await.
CheckArgs(p) ==
    /\ pc[p] = "start"
    /\ call[p].fn \in DanmakuFns
    /\ LET s == ArgsCheck(call[p])
       IN /\ pc' = [pc EXCEPT ![p] = s.next]
          /\ err' = [err EXCEPT ![p] = s.err]
          /\ loc' = [loc EXCEPT ![p].cid = s.cid, ![p].stage = s.stage]
    /\ UNCHANGED <<call, hist, fs, layoutVars>>

\* cid = await v._Video__get_page_id_by_index(page)
GetPageId(p) ==
    /\ pc[p] = "page_id"
    /\ \E o \in Outcomes :
        /\ Retrieved(p, "page_id", o)
        /\ IF PageIdProceeds(o)
           THEN /\ Goto(p, "get_info")
                /\ loc' = [loc EXCEPT ![p].cid = 100 + call[p].page]
                /\ UNCHANGED err
           ELSE /\ Raise(p, RetrievalError(o))
                /\ UNCHANGED loc
    /\ UNCHANGED <<call, fs, layoutVars>>

\* try: info = await v.get_info() except: ...; stage_size = (width, height)
GetInfo(p) ==
    /\ pc[p] = "get_info"
    /\ \E r \in InfoResults :
        /\ hist' = [hist EXCEPT ![p].retr = @ \cup {"get_info"},
                                ![p].failed = IF r.outcome = "ok" THEN @
                                              ELSE @ \cup {"get_info"},
                                ![p].info = r]
        /\ loc' = [loc EXCEPT ![p].stage = StageSizeOf(r)]
    /\ Goto(p, "fetch")
    /\ UNCHANGED <<call, err, fs, layoutVars>>

\* await v.get_danmaku_xml(...) / await v.get_danmakus(...)
Fetch(p) ==
    /\ pc[p] = "fetch"
    /\ \E o \in Outcomes :
        /\ Retrieved(p, "fetch", o)
        /\ IF FetchProceeds(o)
           THEN /\ Goto(p, "write")
                /\ loc' = [loc EXCEPT ![p].data =
                             Content(IF call[p].fn = XmlFn THEN "xml" ELSE "danmakus", p)]
                /\ UNCHANGED err
           ELSE /\ Raise(p, RetrievalError(o))
                /\ UNCHANGED loc
    /\ UNCHANGED <<call, fs, layoutVars>>

\* with open(gettempdir() + "/danmaku_temp.xml", "w+") as file: file.write(...)
\* open() truncates before the data is read: with the data unbound the file is
\* left empty (xml) or holding only "<i>" (protobuf).
WriteTemp(p) ==
    /\ pc[p] = "write"
    /\ hist' = [hist EXCEPT ![p].wrote = @ \cup {TmpXml}]
    /\ IF loc[p].data.kind = "unbound"
       THEN /\ fs' = WriteFile(fs, TmpXml,
                        Content(IF call[p].fn = XmlFn THEN "empty" ELSE "partial", p))
            /\ Raise(p, "UnboundLocalError")
       ELSE /\ fs' = WriteFile(fs, TmpXml, Content("xml", loc[p].data.src))
            /\ Goto(p, "convert")
            /\ UNCHANGED err
    /\ UNCHANGED <<call, loc, layoutVars>>

\* export_ass_from_xml(gettempdir() + "/danmaku_temp.xml", out, stage_size, ...)
ExportAssFromXml(p) ==
    /\ pc[p] = "convert"
    /\ \E readable \in BOOLEAN :
        LET r == Danmaku2ASS(fs, TmpXml, call[p].out, loc[p].stage, readable)
        IN /\ fs' = r.fs
           /\ err' = [err EXCEPT ![p] = r.err]
           /\ pc' = [pc EXCEPT ![p] = IF r.err = "none" THEN "done" ELSE "raised"]
           /\ hist' = [hist EXCEPT ![p].conv = TRUE,
                                   ![p].layout = r.layout,
                                   ![p].read = fs[TmpXml],
                                   ![p].stage = loc[p].stage,
                                   ![p].wrote = IF r.err = "none"
                                                THEN @ \cup {call[p].out} ELSE @]
    /\ UNCHANGED <<call, loc, layoutVars>>

\* make_ass_file_subtitle: info = await obj.get_info(), then the loop over
\* info["subtitle"]["list"] up to the first await inside it.
SubGetInfo(p) ==
    /\ pc[p] = "sub_info"
    /\ \E o \in Outcomes :
        /\ Retrieved(p, "get_info", o)
        /\ LET i == FirstMatch(call[p].tracks, call[p].name, 1)
           IN IF o # "ok"
              THEN Raise(p, RetrievalError(o)) /\ UNCHANGED loc
              ELSE IF i = 0
              THEN Raise(p, NotFoundError) /\ UNCHANGED loc
              ELSE /\ Goto(p, "sub_fetch")
                   /\ loc' = [loc EXCEPT ![p].url = i]
                   /\ UNCHANGED err
    /\ UNCHANGED <<call, fs, layoutVars>>

\* req = await get_session().request("GET", url)
SubFetch(p) ==
    /\ pc[p] = "sub_fetch"
    /\ \E o \in Outcomes :
        /\ Retrieved(p, "http_get", o)
        /\ IF o = "ok"
           THEN /\ Goto(p, "sub_write")
                /\ loc' = [loc EXCEPT ![p].data = Content("json", p)]
                /\ UNCHANGED err
           ELSE /\ Raise(p, RetrievalError(o))
                /\ UNCHANGED loc
    /\ UNCHANGED <<call, fs, layoutVars>>

\* with open(gettempdir() + "/" + "subtitle.json", "wb") as f: f.write(req.content)
SubWrite(p) ==
    /\ pc[p] = "sub_write"
    /\ fs' = WriteFile(fs, TmpJson, loc[p].data)
    /\ hist' = [hist EXCEPT ![p].wrote = @ \cup {TmpJson}]
    /\ Goto(p, "export_json")
    /\ UNCHANGED <<call, loc, err, layoutVars>>

FileLocal(p) == IF call[p].fn = SubtitleFn THEN TmpJson ELSE JsonIn(p)

\* export_ass_from_json(file_local, out): json2srt, srt2ass, os.remove.
ExportAssFromJson(p) ==
    /\ pc[p] = "export_json"
    /\ \E failsAt \in {"none", "json2srt", "srt2ass"} :
        /\ fs' = ExportAssFromJsonFs(fs, FileLocal(p), call[p].out, failsAt)
        /\ err' = [err EXCEPT ![p] = IF failsAt = "none" THEN "none" ELSE "ConverterError"]
        /\ pc' = [pc EXCEPT ![p] = IF failsAt = "none" THEN "done" ELSE "raised"]
        /\ hist' = [hist EXCEPT ![p].conv = TRUE,
                                ![p].read = fs[FileLocal(p)],
                                ![p].wrote = @ \cup
                                    (IF failsAt = "json2srt" THEN {}
                                     ELSE IF failsAt = "srt2ass" THEN {SrtPath(call[p].out)}
                                     ELSE {SrtPath(call[p].out), call[p].out})]
    /\ UNCHANGED <<call, loc, layoutVars>>

CallStep(p) ==
    \/ CheckArgs(p)
    \/ GetPageId(p)
    \/ GetInfo(p)
    \/ Fetch(p)
    \/ WriteTemp(p)
    \/ ExportAssFromXml(p)
    \/ SubGetInfo(p)
    \/ SubFetch(p)
    \/ SubWrite(p)
    \/ ExportAssFromJson(p)

Next == \E p \in Procs : CallStep(p)

(***************************************************************************)
(* The calls a caller can make                                             *)
(***************************************************************************)
DanmakuCalls(p) ==
    {[fn |-> XmlFn, obj |-> o, page |-> pg, cid |-> c, date |-> FALSE,
      credential |-> "None", out |-> DefaultOut(p), name |-> "", tracks |-> <<>>] :
        o \in ObjTypes, pg \in {Null, 0}, c \in {Null, 7}}
    \cup
    {[fn |-> ProtobufFn, obj |-> o, page |-> pg, cid |-> c, date |-> d,
      credential |-> k, out |-> DefaultOut(p), name |-> "", tracks |-> <<>>] :
        o \in ObjTypes, pg \in {Null, 0}, c \in {Null, 7}, d \in BOOLEAN,
        k \in CredentialKinds}

SubtitleCalls(p) ==
    {[fn |-> SubtitleFn, obj |-> o, page |-> Null, cid |-> Null, date |-> FALSE,
      credential |-> "None", out |-> out, name |-> n, tracks |-> t] :
        o \in {"Video", "Episode"}, out \in {DefaultOut(p), PlainOut(p)},
        n \in TrackNames, t \in TrackLists}

JsonCalls(p) ==
    {[fn |-> JsonFn, obj |-> "Video", page |-> Null, cid |-> Null, date |-> FALSE,
      credential |-> "None", out |-> out, name |-> "", tracks |-> <<>>] :
        out \in OutPaths \cup {DefaultOut(p), PlainOut(p)}}

Calls(p) == DanmakuCalls(p) \cup SubtitleCalls(p) \cup JsonCalls(p)

\* Two calls for different videos, each with valid arguments.
ParCalls(p) ==
    {c \in DanmakuCalls(p) : c.obj \in {"Video", "CheeseVideo"} /\ c.page = 0
                              /\ c.cid = Null /\ ~c.date /\ c.credential = "None"}
    \cup {c \in SubtitleCalls(p) : c.obj = "Video" /\ c.out = DefaultOut(p)
                                   /\ c.name = "zh" /\ c.tracks = <<"zh">>}
    \cup {c \in JsonCalls(p) : c.out = DefaultOut(p)}

StartOf(c) ==
    IF c.fn \in DanmakuFns THEN "start"
    ELSE IF c.fn = SubtitleFn THEN "sub_info"
    ELSE IF c.fn = JsonFn THEN "export_json"
    ELSE "idle"

\* The files present before the calls: the input of a direct export_ass_from_json.
InitialFs(cs) ==
    LET ins == {JsonIn(p) : p \in {q \in Procs : cs[q].fn = JsonFn}}
    IN [x \in ins |-> Content("json", CHOOSE p \in Procs : JsonIn(p) = x)]

InitCalls(cs) ==
    /\ call = cs
    /\ pc = [p \in Procs |-> StartOf(cs[p])]
    /\ loc = [p \in Procs |-> NoLoc]
    /\ err = [p \in Procs |-> "none"]
    /\ hist = [p \in Procs |-> NoHist]
    /\ fs = InitialFs(cs)

InitLayoutIdle ==
    /\ canvas = [width |-> 0, height |-> 0, duration_scroll |-> 0,
                 duration_still |-> 0, reserve_blank |-> 0]
    /\ placed = <<>>
    /\ rows = [k \in {} |-> <<>>]
    /\ dropped = 0
    /\ clock = 0

Init ==
    /\ \E c \in Calls(1) : InitCalls([p \in Procs |-> IF p = 1 THEN c ELSE IdleCall])
    /\ InitLayoutIdle

InitPar ==
    /\ \E c1 \in ParCalls(1), c2 \in ParCalls(2) :
          InitCalls([p \in Procs |-> IF p = 1 THEN c1 ELSE c2])
    /\ InitLayoutIdle

Spec == Init /\ [][Next]_vars

SpecPar == InitPar /\ [][Next]_vars

(***************************************************************************)
(* The layout engine (Danmaku2ASS's core)                                  *)
(***************************************************************************)
ScrollClasses == {"ScrollRight", "ScrollLeft"}
FixedClasses == {"FixedTop", "FixedBottom"}
RowClasses == ScrollClasses \cup FixedClasses
MotionClasses == RowClasses \cup {"Special"}

\* The canvases the engine is run on. Lengths are in text lines and pixels small
\* enough to enumerate; the scroll duration makes the catch-up test depend on
\* the text width.
Canvases ==
    {[width |-> 3, height |-> h, duration_scroll |-> 3, duration_still |-> 2,
      reserve_blank |-> 0] : h \in {1, 2}}

Comment(t, k, w, l) == [start_time |-> t, motion_class |-> k, width |-> w, line |-> l]

\* What a comment may be, its start time aside: (class, text width, line height).
\* The text width only matters to a scrolling comment; width 0 is an empty text.
CommentKinds ==
    {<<k, w, 1>> : k \in ScrollClasses, w \in {1, 3}}
    \cup {<<k, 1, 1>> : k \in FixedClasses}
    \cup {<<"Special", 1, 1>>, <<"FixedTop", 0, 1>>}

\* The time between a comment and the next one of the (sorted) input.
Gaps(cv) ==
    0 .. (IF cv.duration_scroll > cv.duration_still
          THEN cv.duration_scroll ELSE cv.duration_still)

Duration(cv, k) ==
    IF k \in ScrollClasses THEN cv.duration_scroll ELSE cv.duration_still

\* Eligibility with the exact boundary excluded.
MutFixedEligible(cv, prev, c) ==
    c.start_time > prev.start_time + cv.duration_still

\* Eligibility without the catch-up test.
MutScrollEligible(cv, prev, c) ==
    (cv.width + prev.width) * (c.start_time - prev.start_time)
        >= prev.width * cv.duration_scroll

\* Fixed classes: eligible if comment.start_time >= row.last_occupant.end_time.
FixedEligible(cv, prev, c) ==
    c.start_time >= prev.start_time + cv.duration_still

\* Scroll classes: a comment crosses canvas width + text width in duration_scroll.
\* Eligible if the previous occupant's tail has entered the canvas when the new
\* comment starts, and the new comment's head reaches the far edge no earlier
\* than the previous occupant has left.
ScrollEligible(cv, prev, c) ==
    /\ (cv.width + prev.width) * (c.start_time - prev.start_time)
          >= prev.width * cv.duration_scroll
    /\ cv.width * cv.duration_scroll
          >= (cv.width + c.width) * (prev.start_time + cv.duration_scroll - c.start_time)

Eligible(cv, prev, c) ==
    IF c.motion_class \in FixedClasses THEN FixedEligible(cv, prev, c)
    ELSE ScrollEligible(cv, prev, c)

\* (canvas.height - reserve_blank) divided by the comment's line height.
RowCapacity(cv, c) == (cv.height - cv.reserve_blank) \div c.line

SetMin(S) == CHOOSE x \in S : \A y \in S : x <= y

\* The least-recently-available row among rs: the one whose last occupant ends
\* first, the topmost of them.
LeastRecentlyAvailable(bank, rs) ==
    SetMin({r \in rs : \A q \in rs : bank[r].start_time <= bank[q].start_time})

\* The row for comment c given its class's bank (bank[r + 1]: the last occupant of
\* row r): the topmost eligible row, else a new row if capacity allows, else the
\* overlay fallback.
ChooseRow(cv, bank, c) ==
    LET cap == RowCapacity(cv, c)
        usable == 1 .. (IF Len(bank) < cap THEN Len(bank) ELSE cap)
        free == {r \in usable : Eligible(cv, bank[r], c)}
    IN IF free # {} THEN [row |-> SetMin(free) - 1, overlay |-> FALSE]
       ELSE IF Len(bank) < cap THEN [row |-> Len(bank), overlay |-> FALSE]
       ELSE [row |-> LeastRecentlyAvailable(bank, usable) - 1, overlay |-> TRUE]

\* Record the chosen row's new last occupant.
MarkRow(bank, row, c) ==
    IF row = Len(bank) THEN Append(bank, c) ELSE [bank EXCEPT ![row + 1] = c]

Placed(c, row, overlay) ==
    [start_time |-> c.start_time, motion_class |-> c.motion_class, width |-> c.width,
     line |-> c.line, row |-> row, overlay |-> overlay]

Processed == Len(placed) + dropped

\* The next comment of the input: the parser hands them over sorted by start_time.
NextComments ==
    {Comment(clock + g, k[1], k[2], k[3]) : g \in Gaps(canvas), k \in CommentKinds}

\* A comment with an empty text is dropped with a counted warning.
DropComment(c) ==
    /\ Processed < MaxComments
    /\ c.width = 0
    /\ dropped' = dropped + 1
    /\ clock' = c.start_time
    /\ UNCHANGED <<canvas, placed, rows, callVars>>

\* A Special comment bypasses row allocation.
PlaceSpecial(c) ==
    /\ Processed < MaxComments
    /\ c.width > 0
    /\ c.motion_class = "Special"
    /\ placed' = Append(placed, Placed(c, Null, FALSE))
    /\ clock' = c.start_time
    /\ UNCHANGED <<canvas, rows, dropped, callVars>>

\* A scrolling or fixed comment is given a row of its class's bank.
PlaceInRow(c) ==
    /\ Processed < MaxComments
    /\ c.width > 0
    /\ c.motion_class \in RowClasses
    /\ LET r == ChooseRow(canvas, rows[c.motion_class], c)
       IN /\ placed' = Append(placed, Placed(c, r.row, r.overlay))
          /\ rows' = [rows EXCEPT ![c.motion_class] = MarkRow(@, r.row, c)]
    /\ clock' = c.start_time
    /\ UNCHANGED <<canvas, dropped, callVars>>

NextLayout ==
    \/ \E c \in NextComments : DropComment(c)
    \/ \E c \in NextComments : PlaceSpecial(c)
    \/ \E c \in NextComments : PlaceInRow(c)

InitLayout ==
    /\ InitCalls([p \in Procs |-> IdleCall])
    /\ canvas \in Canvases
    /\ placed = <<>>
    /\ rows = [k \in RowClasses |-> <<>>]
    /\ dropped = 0
    /\ clock = 0

SpecLayout == InitLayout /\ [][NextLayout]_vars

(***************************************************************************)
(* Properties of the layout engine (SpecLayout)                            *)
(***************************************************************************)
\* Fixed comments a and b are on screen at a common instant.
TimesOverlap(cv, a, b) ==
    /\ a.start_time < b.start_time + Duration(cv, a.motion_class)
    /\ b.start_time < a.start_time + Duration(cv, b.motion_class)

\* duration_scroll times the distance of a scrolling comment's leading and
\* trailing edge from the edge it leaves by, at time t.
HeadAt(cv, c, t) ==
    cv.width * cv.duration_scroll - (cv.width + c.width) * (t - c.start_time)
TailAt(cv, c, t) == HeadAt(cv, c, t) + c.width * cv.duration_scroll

\* Scrolling comments a and b cover a common stretch of their row at some instant
\* at which both are under way. The edges move linearly, so the integer instants
\* from the later start to the earlier exit decide it.
ScrollCollide(cv, a, b) ==
    LET from == IF a.start_time > b.start_time THEN a.start_time ELSE b.start_time
        to == (IF a.start_time < b.start_time THEN a.start_time ELSE b.start_time)
              + cv.duration_scroll
    IN \E t \in from .. to :
          /\ HeadAt(cv, a, t) < TailAt(cv, b, t)
          /\ HeadAt(cv, b, t) < TailAt(cv, a, t)

Collide(cv, a, b) ==
    IF a.motion_class \in FixedClasses THEN TimesOverlap(cv, a, b)
    ELSE ScrollCollide(cv, a, b)

SameRow(a, b) ==
    /\ a.motion_class \in RowClasses
    /\ a.motion_class = b.motion_class
    /\ a.row = b.row

PlacedPairs == {<<i, j>> \in (1 .. Len(placed)) \X (1 .. Len(placed)) : i < j}

\* No comment was overlaid by the overload fallback onto the row of comment a.
RowNotOverloaded(a) ==
    \A n \in 1 .. Len(placed) : SameRow(placed[n], a) => ~placed[n].overlay

\* C1 (as claimed): after any time-ordered sequence of comments, no two placed
\* comments that share a motion class and a row collide.
C1_NoCollision ==
    \A q \in PlacedPairs :
        SameRow(placed[q[1]], placed[q[2]])
            => ~Collide(canvas, placed[q[1]], placed[q[2]])

\* C1 (amended): no two placed comments that share a motion class and a row
\* collide, unless the overload fallback has overlaid a comment onto that row.
C1_NoCollisionUnlessOverloaded ==
    \A q \in PlacedPairs :
        (SameRow(placed[q[1]], placed[q[2]]) /\ RowNotOverloaded(placed[q[1]]))
            => ~Collide(canvas, placed[q[1]], placed[q[2]])

\* C1 witness: three comments share a row that was never overloaded.
C1_Witness ==
    \E i, j, n \in 1 .. Len(placed) :
        /\ i < j /\ j < n
        /\ SameRow(placed[i], placed[j]) /\ SameRow(placed[j], placed[n])
        /\ placed[i].motion_class \in ScrollClasses
        /\ RowNotOverloaded(placed[i])
        /\ placed[n].start_time < placed[i].start_time + Duration(canvas, placed[i].motion_class)

OfClass(k) == {i \in 1 .. Len(placed) : placed[i].motion_class = k}

\* The occupied intervals [start_time, start_time + duration) of the placed
\* comments of class k are pairwise disjoint.
PairwiseDisjoint(k) ==
    \A i, j \in OfClass(k) :
        i < j => placed[j].start_time >= placed[i].start_time + Duration(canvas, k)

\* C7: the comments of one motion class whose occupied intervals are pairwise
\* non-overlapping (one may start at the instant the previous one ends) are all
\* placed in row 0.
C7_RowMinimality ==
    \A k \in RowClasses :
        PairwiseDisjoint(k) => \A i \in OfClass(k) : placed[i].row = 0

\* C7 witness: two fixed comments of one class, the second starting at the instant
\* the first ends, both in row 0.
C7_Witness ==
    \E i, j \in OfClass("FixedBottom") :
        /\ i < j
        /\ PairwiseDisjoint("FixedBottom")
        /\ placed[j].start_time = placed[i].start_time + canvas.duration_still
        /\ placed[i].row = 0 /\ placed[j].row = 0

(***************************************************************************)
(* Properties of the entry points (Spec, SpecPar)                          *)
(***************************************************************************)
Ended(p) == pc[p] \in {"done", "raised"}

RetrievalErrors == {"CancelledError", "NetworkException"}

\* Python's built-in exception kinds, raised for any kind of failure.
GenericErrorKinds == {"Exception", "ValueError", "RuntimeError"}

\* The files a call creates only to hand data to a converter: the two temp-dir
\* files and the .srt file (where its path is not the output path itself).
IntermediateFiles(p) == {TmpXml, TmpJson} \cup ({SrtPath(call[p].out)} \ {call[p].out})

\* C2: every intermediate file a call created is gone when the call has ended,
\* whether it returned or raised.
C2_TempFilesRemoved ==
    \A p \in Procs :
        Ended(p) =>
            \A f \in hist[p].wrote \cap IntermediateFiles(p) : ~Exists(fs, f)

\* C3: the converter of each call reads the data that call wrote.
C3_ReadsOwnData ==
    \A p \in Procs : hist[p].conv => hist[p].read.src = p

\* C4 (as claimed): a danmaku call one of whose retrieval steps failed or was
\* cancelled never invokes the converter.
C4_NoConvertAfterFailure ==
    \A p \in Procs :
        (call[p].fn \in DanmakuFns /\ hist[p].failed # {}) => ~hist[p].conv

\* C4 (amended): a danmaku call whose page-id lookup or danmaku fetch failed or was
\* cancelled raises that error and never invokes the converter; a failed or
\* cancelled get_info alone does not end the call, which goes on with 1440x1080.
C4_NoConvertAfterLookupOrFetchFailure ==
    \A p \in Procs :
        call[p].fn \in DanmakuFns =>
            /\ hist[p].failed \cap {"page_id", "fetch"} # {}
                => (~hist[p].conv /\ pc[p] = "raised" /\ err[p] \in RetrievalErrors)
            /\ hist[p].failed = {"get_info"}
                => (err[p] \notin RetrievalErrors
                    /\ loc[p].stage = <<DefaultWidth, DefaultHeight>>)

\* C4 witness: a call whose danmaku fetch was cancelled has raised.
C4_Witness ==
    \E p \in Procs :
        /\ call[p].fn \in DanmakuFns
        /\ "fetch" \in hist[p].failed
        /\ err[p] = "CancelledError"
        /\ ~hist[p].conv

NoMatch(p) == FirstMatch(call[p].tracks, call[p].name, 1) = 0

\* C5: asked for a track name no track has, make_ass_file_subtitle raises an error
\* of a kind of its own, having fetched no subtitle and written no file.
C5_DistinctLookupError ==
    \A p \in Procs :
        (call[p].fn = SubtitleFn /\ NoMatch(p) /\ pc[p] = "raised"
         /\ hist[p].failed = {})
            => /\ err[p] \notin GenericErrorKinds
               /\ "http_get" \notin hist[p].retr
               /\ hist[p].wrote = {}

\* C5, the part the code keeps: no subtitle is fetched and no file is written.
C5_NoFetchNoWrite ==
    \A p \in Procs :
        (call[p].fn = SubtitleFn /\ NoMatch(p))
            => ("http_get" \notin hist[p].retr /\ hist[p].wrote = {} /\ pc[p] # "done")

C8_OutputKept ==
    \A p \in Procs :
        (call[p].fn \in {JsonFn, SubtitleFn} /\ pc[p] = "done")
            => /\ Exists(fs, call[p].out)
               /\ SrtPath(call[p].out) # call[p].out
               /\ ~Exists(fs, SrtPath(call[p].out))

AcceptedObj(p) == call[p].obj \in {"Video", "Episode", "CheeseVideo"}

\* The stage size the danmaku entry points are to hand to the converter.
ExpectedStage(p) ==
    IF call[p].obj = "CheeseVideo" THEN <<1440, 1080>>
    ELSE IF hist[p].info.outcome = "ok" THEN hist[p].info.dim
    ELSE <<1440, 1080>>

\* C9: the converter is handed the size get_info reported, 1440x1080 when get_info
\* failed and always for a CheeseVideo; for an accepted obj type the stage size
\* and the danmaku data are both bound when the temp file is written.
C9_StageSize ==
    \A p \in Procs :
        (call[p].fn \in DanmakuFns /\ AcceptedObj(p)) =>
            /\ hist[p].conv => hist[p].stage = ExpectedStage(p)
            /\ TmpXml \in hist[p].wrote
                => (loc[p].stage = ExpectedStage(p) /\ loc[p].data.kind # "unbound")

\* C9 witness: get_info failed for a Video and the converter got 1440x1080.
C9_Witness ==
    \E p \in Procs :
        /\ call[p].obj = "Video"
        /\ "get_info" \in hist[p].failed
        /\ hist[p].conv
        /\ hist[p].stage = <<1440, 1080>>

NeitherPageNorCid(p) ==
    call[p].fn \in DanmakuFns /\ call[p].page = Null /\ call[p].cid = Null
    /\ pc[p] # "start"

ArgErrors == {"ArgsException", "AttributeError", "CredentialNoSessdataException"}

\* The protobuf variant's check "if date: credential.raise_for_no_sessdata()" passes.
CredentialCheckPasses(p) ==
    ~(call[p].fn = ProtobufFn /\ call[p].date /\ call[p].credential # "Sessdata")

\* C10 (as claimed): without page and cid a Video that is no Episode makes both
\* entry points raise ArgsException before any retrieval and any write; an Episode
\* passes, with cid 0.
C10_ArgsException ==
    \A p \in Procs :
        NeitherPageNorCid(p) =>
            /\ call[p].obj = "Video"
                => (err[p] = "ArgsException" /\ hist[p].retr = {} /\ hist[p].wrote = {})
            /\ call[p].obj = "Episode"
                => (loc[p].cid = 0 /\ err[p] \notin ArgErrors)

\* C10 (amended): the same, except that the protobuf variant given a date and a
\* credential that is None or has no sessdata raises on the credential check first
\* (AttributeError, CredentialNoSessdataException), for a Video and an Episode
\* alike, also before any retrieval and any write.
C10_ArgsExceptionAfterCredentialCheck ==
    \A p \in Procs :
        NeitherPageNorCid(p) =>
            /\ call[p].obj = "Video"
                => /\ hist[p].retr = {} /\ hist[p].wrote = {} /\ pc[p] = "raised"
                   /\ err[p] = IF CredentialCheckPasses(p) THEN "ArgsException"
                               ELSE IF call[p].credential = "None" THEN "AttributeError"
                               ELSE "CredentialNoSessdataException"
            /\ (call[p].obj = "Episode" /\ CredentialCheckPasses(p))
                => (loc[p].cid = 0 /\ err[p] \notin ArgErrors)
            /\ (call[p].obj = "Episode" /\ ~CredentialCheckPasses(p))
                => (err[p] \in ArgErrors \ {"ArgsException"}
                    /\ hist[p].retr = {} /\ hist[p].wrote = {})

\* C10 witness: the protobuf variant, given a date and a credential with sessdata
\* but neither page nor cid for a Video, has raised ArgsException.
C10_Witness ==
    \E p \in Procs :
        /\ NeitherPageNorCid(p)
        /\ call[p].fn = ProtobufFn /\ call[p].obj = "Video"
        /\ call[p].date /\ call[p].credential = "Sessdata"
        /\ err[p] = "ArgsException"

====
